---- MODULE Spec2Model ----
(***************************************************************************)
(* A model of rlsuite's tabular SARSA (src/rlsuite/algos/sarsa.py).        *)
(*                                                                         *)
(* The program state is the state of one call of sarsa(): its parameters,  *)
(* the policy table pi, the Q-table Q, the loop variables and the locals   *)
(* of the loop body.  The Environment and the metrics sink are the         *)
(* collaborators the function talks to; what they were told is recorded    *)
(* in envLog, envTrace and reports.  Every variable of a run is indexed by *)
(* a run identifier so that two calls with the same seed can be put side   *)
(* by side (specification TwinSpec); Spec holds a single call.             *)
(*                                                                         *)
(* Real numbers are exact rationals <<n, d>> in lowest terms with d > 0.   *)
(***************************************************************************)
EXTENDS Integers, Sequences, FiniteSets

\* ---------------------------------------------------------------- bounds
MaxEpisodes == 2       \* the largest num_episodes a run is given
MaxSteps == 2          \* a run is followed for at most MaxSteps Environment steps
DrawGrid == 4          \* a raw draw k stands for the uniform sample k / DrawGrid
MaxAhead == 1          \* a run reads at most MaxAhead draws its twin has not read yet

\* ---------------------------------------------------- rational arithmetic
Abs(n) == IF n < 0 THEN -n ELSE n

RECURSIVE Gcd(_, _)
Gcd(a, b) == IF b = 0 THEN a ELSE Gcd(b, a % b)

\* n / d in lowest terms, d # 0.
Rat(n, d) ==
    LET g == Gcd(Abs(n), Abs(d))
        s == IF d < 0 THEN -1 ELSE 1
    IN  << (s * n) \div g, (s * d) \div g >>

RAdd(x, y) == Rat(x[1] * y[2] + y[1] * x[2], x[2] * y[2])
RSub(x, y) == Rat(x[1] * y[2] - y[1] * x[2], x[2] * y[2])
RMul(x, y) == Rat(x[1] * y[1], x[2] * y[2])
RLt(x, y) == x[1] * y[2] < y[1] * x[2]
RLe(x, y) == x[1] * y[2] <= y[1] * x[2]
Zero == Rat(0, 1)
One == Rat(1, 1)
RInt(n) == Rat(n, 1)

\* A table row is a function on 0 .. n-1.
RECURSIVE SumTo(_, _)
SumTo(row, n) == IF n = 0 THEN Zero ELSE RAdd(SumTo(row, n - 1), row[n - 1])

\* Q[state].max()
RowMax(row) ==
    CHOOSE m \in { row[a] : a \in DOMAIN row } : \A a \in DOMAIN row : RLe(row[a], m)

\* ------------------------------------------------------------------ state
VARIABLES
    runs,            \* the calls of sarsa() under way
    alpha, epsilon, gamma, num_episodes,   \* the arguments (shared by twin calls)
    env,             \* what env_fn() builds: [kind, num_states, num_actions, limit]
    stream,          \* draws of the seeded generator produced and not yet read by every run
    rngPos,          \* rngPos[r]: how many draws of stream run r has read
    pc,              \* pc[r]: the place of run r in sarsa()
    pi, Q,           \* the tables, << >> until lines 62 and 65 create them
    i, episode_length, episode_return,
    state, action, done,
    next_state, reward, next_action, target, best_action,
    envLog,          \* envLog[r]: the kinds of Environment call made so far
    envAt,           \* envAt[r]: the Environment's own current state
    envTrace,        \* envTrace[r]: the step calls of the current episode, as answered
    reports,         \* reports[r]: what the metrics sink received
    left             \* left[r]: the states some completed Environment step has left

params == << runs, alpha, epsilon, gamma, num_episodes, env >>
rng == << stream, rngPos >>
tables == << pi, Q >>
stats == << i, episode_length, episode_return >>
locals == << state, action, done, next_state, reward, next_action, target, best_action >>
world == << envLog, envAt, envTrace, reports, left >>
vars == << params, rng, pc, tables, stats, locals, world >>

Runs == {1, 2}

\* --------------------------------------------------------------- arguments
Alphas == { Rat(0, 1), Rat(1, 2), Rat(1, 1), Rat(2, 1) }
Epsilons == { Rat(-1, 10), Rat(0, 1), Rat(1, 2), Rat(1, 1), Rat(3, 2) }
Gammas == { Rat(-1, 2), Rat(1, 2), Rat(1, 1), Rat(3, 2) }
EpisodeCounts == { -1, 0, 1, MaxEpisodes }

\* The assertions of lines 35-38, in order; the first that fails raises.
AlphaOk(al, ep) == RLt(Zero, al) /\ RLe(ep, One)
EpsilonOk(ep) == RLe(Zero, ep) /\ RLe(ep, One)
GammaOk(ga) == RLe(Zero, ga) /\ RLe(ga, One)
\* The check of line 38 written with >= (a slip that lets 0 through).
EpisodesOkLax(n) == n >= 0
EpisodesOk(n) == n > 0
ParamsOk ==
    /\ AlphaOk(alpha, epsilon)
    /\ EpsilonOk(epsilon)
    /\ GammaOk(gamma)
    /\ EpisodesOk(num_episodes)

\* ------------------------------------------------------------ Environment
\* register(..., max_episode_steps=50): the length at which an episode is cut.
MaxEpisodeSteps == 50

\* The deterministic two-state fixture: from state 0 action 0 pays 1 and ends in
\* the terminal state 1; any other action pays 0 and stays; the episode is cut
\* after `limit` steps.
Fixture(limit) ==
    [kind |-> "fixture", num_states |-> 2, num_actions |-> 2, limit |-> limit]

\* An arbitrary Environment with a time limit: any answer to any step call.
Free(na, limit) ==
    [kind |-> "free", num_states |-> 2, num_actions |-> na, limit |-> limit]

Fixtures == { Fixture(1), Fixture(MaxEpisodeSteps) }
FreeEnvs == { Free(1, MaxEpisodeSteps), Free(2, MaxEpisodeSteps) }

Rewards == { 0, 1 }
States == 0 .. (env.num_states - 1)
Actions == 0 .. (env.num_actions - 1)

\* env.reset(): every episode starts in state 0.
EnvReset == {0}

\* env.step(a) for run r: the possible (next_state, reward, done).
EnvStepAnswers(r, a) ==
    LET cut == Len(envTrace[r]) + 1 >= env.limit
    IN  IF env.kind = "fixture"
        THEN IF envAt[r] = 0 /\ a = 0
             THEN { [next_state |-> 1, reward |-> 1, done |-> TRUE] }
             ELSE { [next_state |-> envAt[r], reward |-> 0, done |-> cut] }
        ELSE { [next_state |-> s, reward |-> w, done |-> d] :
                 s \in States, w \in Rewards, d \in { x \in BOOLEAN : cut => x } }

\* ------------------------------------------------------- the random stream
Raw == 0 .. (DrawGrid - 1)

MinOf(S) == CHOOSE k \in S : \A m \in S : k <= m

\* A generator that was never seeded: any value, whatever the twin has read.
RawChoicesUnseeded(r) == Raw

\* The raw values run r may read next.  np.random.seed(seed) fixes the stream:
\* a draw another run with the same seed has already read is read again.
RawChoices(r) ==
    IF rngPos[r] < Len(stream) THEN { stream[rngPos[r] + 1] }
    ELSE IF Len(stream) < MaxAhead THEN Raw ELSE {}

\* Run r reads the raw value u.
Consume(r, u) ==
    LET s1 == IF rngPos[r] < Len(stream) THEN stream ELSE Append(stream, u)
        p1 == [rngPos EXCEPT ![r] = @ + 1]
        k == MinOf({ p1[q] : q \in runs })
    IN  /\ stream' = SubSeq(s1, k + 1, Len(s1))
        /\ rngPos' = [q \in Runs |-> IF q \in runs THEN p1[q] - k ELSE 0]

\* np.random.choice(n, p=row) with the uniform sample u / DrawGrid: the first
\* index whose cumulative probability exceeds the sample.
ChoiceP(row, u) ==
    LET n == Cardinality(DOMAIN row)
        over(a) == RLt(Rat(u, DrawGrid), SumTo(row, a + 1))
    IN  CHOOSE a \in 0 .. (n - 1) : over(a) /\ \A b \in 0 .. (a - 1) : ~over(b)

\* The k-th (from 1) smallest member of a set of integers.
RECURSIVE Nth(_, _)
Nth(S, k) == IF k = 1 THEN MinOf(S) ELSE Nth(S \ { MinOf(S) }, k - 1)

\* np.random.choice(best_actions) with the uniform sample u / DrawGrid.
ChoiceOf(S, u) == Nth(S, ((u * Cardinality(S)) \div DrawGrid) + 1)

\* ------------------------------------------------------------ the tables
UniformTable(ns, na) == [s \in 0 .. (ns - 1) |-> [a \in 0 .. (na - 1) |-> Rat(1, na)]]
ZeroTable(ns, na) == [s \in 0 .. (ns - 1) |-> [a \in 0 .. (na - 1) |-> Zero]]

\* 1 - epsilon + epsilon / num_actions and epsilon / num_actions
GreedyProb == RAdd(RSub(One, epsilon), RMul(epsilon, Rat(1, env.num_actions)))
OtherProb == RMul(epsilon, Rat(1, env.num_actions))

\* The textbook choice: the row of the state being entered.
SampleRowNext(r) == pi[r][next_state[r]]

\* Line 86: the row next_action is sampled from.
SampleRow(r) == pi[r][state[r]]

\* The target without its reward term.
TdTargetNoReward(r) == RMul(gamma, Q[r][next_state[r]][next_action[r]])

\* Line 89
TdTarget(r) == RAdd(RInt(reward[r]), RMul(gamma, Q[r][next_state[r]][next_action[r]]))

\* The update without the "- Q[state, action]" of the error term.
QStepNoError(old, tgt) == RAdd(old, RMul(alpha, tgt))

\* Line 90
QStep(old, tgt) == RAdd(old, RMul(alpha, RSub(tgt, old)))

\* Every action taken for a best one.
BestActionsAny(row) == DOMAIN row

\* Line 93
BestActions(row) == { a \in DOMAIN row : row[a] = RowMax(row) }

\* The row of the state being entered.
DeriveAtNext(r) == next_state[r]

\* Lines 93-99: the row that is derived again is that of the state being left.
DeriveAt(r) == state[r]

\* "=" for "+=".
ReturnAfterLast(r) == reward[r]

\* Line 107
ReturnAfter(r) == episode_return[r] + reward[r]

\* Lines 93-94: the values best_action can take for run r.
CanChoose(r) ==
    LET best_actions == BestActions(Q[r][DeriveAt(r)])
    IN  IF Cardinality(best_actions) = 1
        THEN best_actions
        ELSE { ChoiceOf(best_actions, u) : u \in RawChoices(r) }

\* The greedy action without its epsilon / num_actions share.
GreedyRowNoShare(best) ==
    [a \in Actions |-> IF a = best THEN RSub(One, epsilon) ELSE OtherProb]

\* The branches of lines 96-99 exchanged.
GreedyRowInverted(best) ==
    [a \in Actions |-> IF a = best THEN OtherProb ELSE GreedyProb]

\* Lines 95-99
GreedyRow(best) == [a \in Actions |-> IF a = best THEN GreedyProb ELSE OtherProb]

\* ---------------------------------------------------------- initial state
\* sarsa() has been called by every run of rs and no line of it has run; the
\* locals hold placeholders that are never read before they are assigned.
InitWith(rs, envs) ==
    /\ runs = rs
    /\ alpha \in Alphas
    /\ epsilon \in Epsilons
    /\ gamma \in Gammas
    /\ num_episodes \in EpisodeCounts
    /\ env \in envs
    /\ stream = << >>
    /\ rngPos = [r \in Runs |-> 0]
    /\ pc = [r \in Runs |-> IF r \in rs THEN "start" ELSE "off"]
    /\ pi = [r \in Runs |-> << >>]
    /\ Q = [r \in Runs |-> << >>]
    /\ i = [r \in Runs |-> 0]
    /\ episode_length = [r \in Runs |-> 0]
    /\ episode_return = [r \in Runs |-> 0]
    /\ state = [r \in Runs |-> 0]
    /\ action = [r \in Runs |-> 0]
    /\ done = [r \in Runs |-> FALSE]
    /\ next_state = [r \in Runs |-> 0]
    /\ reward = [r \in Runs |-> 0]
    /\ next_action = [r \in Runs |-> 0]
    /\ target = [r \in Runs |-> Zero]
    /\ best_action = [r \in Runs |-> 0]
    /\ envLog = [r \in Runs |-> {}]
    /\ envAt = [r \in Runs |-> 0]
    /\ envTrace = [r \in Runs |-> << >>]
    /\ reports = [r \in Runs |-> << >>]
    /\ left = [r \in Runs |-> {}]

Init == InitWith({1}, Fixtures \cup FreeEnvs)

\* ---------------------------------------------------------------- actions
\* Lines 35-38: the assertions.
Validate(r) ==
    /\ pc[r] = "start"
    /\ pc' = [pc EXCEPT ![r] = IF ParamsOk THEN "validated" ELSE "failed"]
    /\ UNCHANGED << params, rng, tables, stats, locals, world >>

\* Lines 50-65: the Environment is built and seeded, the generator is seeded,
\* the tables are created.
Setup(r) ==
    /\ pc[r] = "validated"
    /\ envLog' = [envLog EXCEPT ![r] = @ \cup {"env_fn", "seed"}]
    /\ pi' = [pi EXCEPT ![r] = UniformTable(env.num_states, env.num_actions)]
    /\ Q' = [Q EXCEPT ![r] = ZeroTable(env.num_states, env.num_actions)]
    /\ pc' = [pc EXCEPT ![r] = "episode"]
    /\ UNCHANGED << params, rng, stats, locals, envAt, envTrace, reports, left >>

\* Lines 68-80: the next episode starts.
Reset(r) ==
    /\ pc[r] = "episode"
    /\ i[r] < num_episodes
    /\ episode_length' = [episode_length EXCEPT ![r] = 0]
    /\ episode_return' = [episode_return EXCEPT ![r] = 0]
    /\ \E s0 \in EnvReset :
          /\ state' = [state EXCEPT ![r] = s0]
          /\ envAt' = [envAt EXCEPT ![r] = s0]
          /\ \E u \in RawChoices(r) :
                /\ action' = [action EXCEPT ![r] = ChoiceP(pi[r][s0], u)]
                /\ Consume(r, u)
    /\ envTrace' = [envTrace EXCEPT ![r] = << >>]
    /\ envLog' = [envLog EXCEPT ![r] = @ \cup {"reset"}]
    /\ done' = [done EXCEPT ![r] = FALSE]
    /\ pc' = [pc EXCEPT ![r] = "loop"]
    /\ UNCHANGED << params, tables, i, next_state, reward, next_action, target,
                    best_action, reports, left >>

\* The Environment steps run r has made: those of the reported episodes and
\* those of the current one.
RECURSIVE ReportedSteps(_)
ReportedSteps(rs) == IF rs = << >> THEN 0 ELSE rs[1].length + ReportedSteps(Tail(rs))

StepsSoFar(r) == ReportedSteps(reports[r]) + episode_length[r]

\* Line 83: the Environment takes the action.
EnvStep(r) ==
    /\ pc[r] = "loop"
    /\ ~done[r]
    /\ StepsSoFar(r) < MaxSteps
    /\ \E ans \in EnvStepAnswers(r, action[r]) :
          /\ next_state' = [next_state EXCEPT ![r] = ans.next_state]
          /\ reward' = [reward EXCEPT ![r] = ans.reward]
          /\ done' = [done EXCEPT ![r] = ans.done]
          /\ envAt' = [envAt EXCEPT ![r] = ans.next_state]
          /\ envTrace' = [envTrace EXCEPT ![r] =
                Append(@, [state |-> envAt[r], action |-> action[r],
                           reward |-> ans.reward, next_state |-> ans.next_state,
                           done |-> ans.done])]
    /\ envLog' = [envLog EXCEPT ![r] = @ \cup {"step"}]
    /\ left' = [left EXCEPT ![r] = @ \cup {envAt[r]}]
    /\ pc' = [pc EXCEPT ![r] = "stepped"]
    /\ UNCHANGED << params, rng, tables, stats, state, action, next_action, target,
                    best_action, reports >>

\* Line 86: next_action is drawn.
Sample(r) ==
    /\ pc[r] = "stepped"
    /\ \E u \in RawChoices(r) :
          /\ next_action' = [next_action EXCEPT ![r] = ChoiceP(SampleRow(r), u)]
          /\ Consume(r, u)
    /\ pc' = [pc EXCEPT ![r] = "sampled"]
    /\ UNCHANGED << params, tables, stats, state, action, done, next_state, reward,
                    target, best_action, world >>

\* Lines 89-90: the TD target and the Q update.
Update(r) ==
    /\ pc[r] = "sampled"
    /\ target' = [target EXCEPT ![r] = TdTarget(r)]
    /\ Q' = [Q EXCEPT ![r][state[r]][action[r]] = QStep(@, TdTarget(r))]
    /\ pc' = [pc EXCEPT ![r] = "updated"]
    /\ UNCHANGED << params, rng, pi, stats, state, action, done, next_state, reward,
                    next_action, best_action, world >>

\* Lines 93-99: the policy row of the state being left is derived again.
\* np.random.choice reads the generator only when there is a choice to make.
Derive(r) ==
    /\ pc[r] = "updated"
    /\ \E b \in CanChoose(r) :
          /\ best_action' = [best_action EXCEPT ![r] = b]
          /\ pi' = [pi EXCEPT ![r][DeriveAt(r)] = GreedyRow(b)]
          /\ LET best_actions == BestActions(Q[r][DeriveAt(r)])
             IN  IF Cardinality(best_actions) = 1
                 THEN UNCHANGED rng
                 ELSE \E u \in RawChoices(r) :
                        /\ ChoiceOf(best_actions, u) = b
                        /\ Consume(r, u)
    /\ pc' = [pc EXCEPT ![r] = "derived"]
    /\ UNCHANGED << params, Q, stats, state, action, done, next_state, reward,
                    next_action, target, world >>

\* Lines 102-107: state and action advance, the statistics are updated.
Advance(r) ==
    /\ pc[r] = "derived"
    /\ state' = [state EXCEPT ![r] = next_state[r]]
    /\ action' = [action EXCEPT ![r] = next_action[r]]
    /\ episode_length' = [episode_length EXCEPT ![r] = @ + 1]
    /\ episode_return' = [episode_return EXCEPT ![r] = ReturnAfter(r)]
    /\ pc' = [pc EXCEPT ![r] = "loop"]
    /\ UNCHANGED << params, rng, tables, i, done, next_state, reward, next_action,
                    target, best_action, world >>

\* Lines 81, 110-112: the episode is over and its summary is written.
Report(r) ==
    /\ pc[r] = "loop"
    /\ done[r]
    /\ reports' = [reports EXCEPT ![r] =
          Append(@, [episode |-> i[r], length |-> episode_length[r],
                     return |-> episode_return[r]])]
    /\ i' = [i EXCEPT ![r] = @ + 1]
    /\ pc' = [pc EXCEPT ![r] = "episode"]
    /\ UNCHANGED << params, rng, tables, episode_length, episode_return, locals,
                    envLog, envAt, envTrace, left >>

\* Lines 68, 115-116: no episode is left.
Close(r) ==
    /\ pc[r] = "episode"
    /\ i[r] >= num_episodes
    /\ envLog' = [envLog EXCEPT ![r] = @ \cup {"close"}]
    /\ pc' = [pc EXCEPT ![r] = "closed"]
    /\ UNCHANGED << params, rng, tables, stats, locals, envAt, envTrace, reports, left >>

Next ==
    \/ \E r \in runs : Validate(r)
    \/ \E r \in runs : Setup(r)
    \/ \E r \in runs : Reset(r)
    \/ \E r \in runs : EnvStep(r)
    \/ \E r \in runs : Sample(r)
    \/ \E r \in runs : Update(r)
    \/ \E r \in runs : Derive(r)
    \/ \E r \in runs : Advance(r)
    \/ \E r \in runs : Report(r)
    \/ \E r \in runs : Close(r)

Spec == Init /\ [][Next]_vars

\* Two calls of sarsa() with the same arguments and the same seed, each on its
\* own instance of the deterministic fixture.  The calls share nothing but the
\* seed, so holding the leader back until its twin has read the same draws
\* (MaxAhead) loses no pair of twin states.
TwinInit == InitWith({1, 2}, Fixtures)

TwinSpec == TwinInit /\ [][Next]_vars

\* ------------------------------------------------------------- properties
Half == Rat(1, 2)

\* The tables of run r exist (lines 62 and 65 have run).
Created(r) == pi[r] # << >> /\ Q[r] # << >>

\* Run r stands between two complete passes of the loop body.
AtBoundary(r) == pc[r] \in {"loop", "episode", "closed"}

\* An action of largest value in a row, said without RowMax.
IsMax(row, a) == \A b \in DOMAIN row : RLe(row[b], row[a])

\* The two probabilities of an epsilon-greedy row, said without the model's own.
Floor == RMul(epsilon, Rat(1, env.num_actions))
Ceiling == RAdd(RSub(One, epsilon), Floor)

\* The sum of the first n entries of a row as a fraction << num, den >>, not
\* reduced.
RECURSIVE Total(_, _)
Total(row, n) ==
    IF n = 0 THEN << 0, 1 >>
    ELSE LET t == Total(row, n - 1)
             x == row[n - 1]
         IN  << t[1] * x[2] + x[1] * t[2], t[2] * x[2] >>

SumsToOne(row) ==
    LET t == Total(row, Cardinality(DOMAIN row)) IN t[1] = t[2]

LastStep(r) == envTrace[r][Len(envTrace[r])]

RECURSIVE RewardSum(_)
RewardSum(tr) == IF tr = << >> THEN 0 ELSE tr[1].reward + RewardSum(Tail(tr))

\* C1: with num_episodes = 0, alpha = 0, epsilon = -0.1 or gamma = 1.5 the call
\* raises at the assertions: it never gets past them, no Environment call
\* (env_fn, seed, reset, step, close) is made, no table is created and nothing
\* is reported.
C1_RejectedBeforeAnyCall ==
    \A r \in runs :
        ( \/ num_episodes = 0
          \/ alpha = Zero
          \/ epsilon = Rat(-1, 10)
          \/ gamma = Rat(3, 2) )
        => /\ pc[r] \in {"start", "failed"}
           /\ envLog[r] = {}
           /\ envTrace[r] = << >>
           /\ pi[r] = << >>
           /\ Q[r] = << >>
           /\ reports[r] = << >>

C1_Witness ==
    /\ pc[1] = "failed"
    /\ num_episodes = 0
    /\ alpha = Half /\ epsilon = Zero /\ gamma = One

\* C2: once the policy table exists, every row of it (visited or not, derived
\* or not) sums to 1 and every entry lies in
\* [epsilon/A, 1 - epsilon + epsilon/A].
C2_PolicyRows ==
    \A r \in runs :
        pi[r] # << >> =>
            LET lo == Floor
                hi == Ceiling
            IN  \A s \in States :
                    /\ SumsToOne(pi[r][s])
                    /\ \A a \in Actions :
                          RLe(lo, pi[r][s][a]) /\ RLe(pi[r][s][a], hi)

C2_Witness ==
    /\ pc[1] = "derived"
    /\ env.num_actions = 2
    /\ epsilon = Half
    /\ pi[1][0][0] = Rat(3, 4)
    /\ pi[1][0][1] = Rat(1, 4)
    /\ pi[1][1][0] = Half

\* The Q update of run r is being made by this step.
Updating(r) == pc[r] = "sampled" /\ pc'[r] = "updated"

StrictlyBetween(lo, x, hi) ==
    \/ RLt(lo, x) /\ RLt(x, hi)
    \/ RLt(hi, x) /\ RLt(x, lo)

\* C3 as stated: for alpha in (0,1] the updated value lies strictly between
\* the old value and the target, or equals the target when alpha = 1.
C3_AsStated ==
    [][ \A r \in runs :
          (Updating(r) /\ RLe(alpha, One)) =>
              LET old == Q[r][state[r]][action[r]]
                  new == Q'[r][state[r]][action[r]]
              IN  \/ StrictlyBetween(old, new, target'[r])
                  \/ alpha = One /\ new = target'[r] ]_vars

\* C3, amended: for alpha in (0,1] the updated value equals the target when
\* alpha = 1 or when the old value already equals the target, and lies
\* strictly between the old value and the target otherwise.
C3_BoundedStep ==
    [][ \A r \in runs :
          (Updating(r) /\ RLe(alpha, One)) =>
              LET old == Q[r][state[r]][action[r]]
                  new == Q'[r][state[r]][action[r]]
              IN  IF alpha = One \/ old = target'[r]
                  THEN new = target'[r]
                  ELSE StrictlyBetween(old, new, target'[r]) ]_vars

C3_Witness ==
    /\ pc[1] = "updated"
    /\ alpha = Half
    /\ target[1] = One
    /\ Q[1][state[1]][action[1]] = Half

\* C4: when a row has just been derived, the action given
\* 1 - epsilon + epsilon/A attains the maximum of the row of Q, every other
\* action is given epsilon/A, and before the derivation every action that
\* attains the maximum can be the one chosen.
C4_TieBreak ==
    \A r \in runs :
        /\ pc[r] = "derived" =>
              LET lo == Floor
                  hi == Ceiling
              IN  /\ IsMax(Q[r][state[r]], best_action[r])
                  /\ \A a \in Actions :
                        pi[r][state[r]][a] = IF a = best_action[r] THEN hi ELSE lo
        /\ pc[r] = "updated" =>
              \A a \in Actions : IsMax(Q[r][state[r]], a) => a \in CanChoose(r)

C4_Witness ==
    /\ pc[1] = "derived"
    /\ env.num_actions = 2
    /\ IsMax(Q[1][state[1]], 0)
    /\ IsMax(Q[1][state[1]], 1)
    /\ best_action[1] = 1
    /\ epsilon = Zero

\* The scenario of C5: the fixture cut after one transition, one episode,
\* alpha = 0.5, gamma = 1.0, epsilon = 0.0.
Scenario ==
    /\ env = Fixture(1)
    /\ alpha = Half /\ gamma = One /\ epsilon = Zero
    /\ num_episodes = 1

\* C5 as stated: the scenario ends with Q[0,0] = 0.5, length 1 and return 1
\* whatever the random draws.
C5_AsStated ==
    \A r \in runs :
        (Scenario /\ pc[r] = "closed") =>
            /\ Q[r][0][0] = Half
            /\ reports[r] = << [episode |-> 0, length |-> 1, return |-> 1] >>

\* C5, amended: the scenario ends with one report of length 1; when the first
\* action drawn from the uniform row pi[0] is 0, Q[0,0] = 0.5 and the return
\* is 1; when it is 1, the Q-table is still all zero and the return is 0.
C5_Scenario ==
    \A r \in runs :
        (Scenario /\ pc[r] = "closed") =>
            /\ Len(envTrace[r]) = 1
            /\ IF envTrace[r][1].action = 0
               THEN /\ Q[r][0][0] = Half
                    /\ reports[r] = << [episode |-> 0, length |-> 1, return |-> 1] >>
               ELSE /\ Q[r] = ZeroTable(2, 2)
                    /\ reports[r] = << [episode |-> 0, length |-> 1, return |-> 0] >>

C5_Witness ==
    /\ Scenario
    /\ pc[1] = "closed"
    /\ Q[1][0][0] = Half
    /\ reports[1][1].return = 1

\* C6: two runs with the same arguments, the same seed and the deterministic
\* fixture agree, at every place of the program both reach, on the tables,
\* the actions, every local, the statistics and the reports.
C6_Determinism ==
    ( /\ pc[1] = pc[2]
      /\ i[1] = i[2]
      /\ episode_length[1] = episode_length[2] )
    => /\ Q[1] = Q[2]
       /\ pi[1] = pi[2]
       /\ state[1] = state[2]
       /\ action[1] = action[2]
       /\ next_state[1] = next_state[2]
       /\ next_action[1] = next_action[2]
       /\ best_action[1] = best_action[2]
       /\ reward[1] = reward[2]
       /\ done[1] = done[2]
       /\ target[1] = target[2]
       /\ episode_return[1] = episode_return[2]
       /\ envTrace[1] = envTrace[2]
       /\ reports[1] = reports[2]

C6_Witness ==
    /\ pc[1] = "closed" /\ pc[2] = "closed"
    /\ num_episodes = 2
    /\ epsilon = Half
    /\ reports[1][1].return = 0
    /\ reports[2][2].return = 1
    /\ Q[2][0][0] = Half

\* C7: next_action is drawn after the Environment step and before any table
\* changes, with non-zero probability in the row of the state being left; the
\* target is reward + gamma * Q[next_state, next_action] with that action;
\* and that action is the one handed to the next Environment step.
C7_NextAction ==
    [][ \A r \in runs :
          /\ (pc[r] = "stepped" /\ pc'[r] = "sampled") =>
                /\ Len(envTrace[r]) = episode_length[r] + 1
                /\ LastStep(r).state = state[r]
                /\ UNCHANGED << pi, Q >>
                /\ RLt(Zero, pi[r][state[r]][next_action'[r]])
          /\ Updating(r) =>
                /\ target'[r] =
                      RAdd(RInt(LastStep(r).reward),
                           RMul(gamma, Q[r][LastStep(r).next_state][next_action[r]]))
                /\ next_action'[r] = next_action[r]
          /\ (pc[r] = "derived" /\ pc'[r] = "loop") =>
                /\ state'[r] = LastStep(r).next_state
                /\ action'[r] = next_action[r]
          /\ (pc[r] = "loop" /\ pc'[r] = "stepped") =>
                /\ envTrace'[r][Len(envTrace'[r])].action = action[r]
                /\ envTrace'[r][Len(envTrace'[r])].state = state[r] ]_vars

C7_Witness ==
    /\ pc[1] = "sampled"
    /\ next_state[1] # state[1]
    /\ pi[1][next_state[1]][next_action[1]] = Zero

\* C8: the reports are numbered 0, 1, ... in order, one per finished episode
\* and num_episodes of them when the run is over; a report is made only after
\* the Environment said done, its length is the number of step calls of that
\* episode (at least 1) and its return the sum of their rewards; between the
\* steps of an episode the two statistics count that episode's steps alone.
C8_Reports ==
    \A r \in runs :
        /\ Len(reports[r]) = i[r]
        /\ \A k \in 1 .. Len(reports[r]) :
              /\ reports[r][k].episode = k - 1
              /\ reports[r][k].length >= 1
              /\ k <= num_episodes
        /\ pc[r] = "closed" => Len(reports[r]) = num_episodes
        /\ (pc[r] \in {"episode", "closed"} /\ i[r] > 0) =>
              /\ reports[r][i[r]].length = Len(envTrace[r])
              /\ reports[r][i[r]].return = RewardSum(envTrace[r])
              /\ \A k \in 1 .. Len(envTrace[r]) :
                    envTrace[r][k].done <=> k = Len(envTrace[r])
        /\ pc[r] = "loop" =>
              /\ episode_length[r] = Len(envTrace[r])
              /\ episode_return[r] = RewardSum(envTrace[r])

C8_Witness ==
    /\ pc[1] = "closed"
    /\ num_episodes = 2
    /\ reports[1][1].return = 1
    /\ reports[1][2].return = 0

\* C9: a step changes no entry of Q but the one of the state being left and
\* the action taken there, and no policy row but that of the state being
\* left; a reset changes neither table; the rows of a state no step has left
\* are all zero in Q and uniform in the policy.
C9_FrameStep ==
    [][ \A r \in runs :
          (Created(r) /\ Created(r)') =>
              /\ \A s \in States : \A a \in Actions :
                    Q'[r][s][a] # Q[r][s][a] =>
                        /\ Updating(r)
                        /\ s = LastStep(r).state
                        /\ a = LastStep(r).action
              /\ \A s \in States :
                    pi'[r][s] # pi[r][s] =>
                        /\ pc[r] = "updated" /\ pc'[r] = "derived"
                        /\ s = LastStep(r).state ]_vars

C9_FrameRows ==
    \A r \in runs :
        Created(r) =>
            \A s \in States \ left[r] : \A a \in Actions :
                /\ Q[r][s][a] = Zero
                /\ pi[r][s][a] = Rat(1, env.num_actions)

C9_Frame == []C9_FrameRows /\ C9_FrameStep

C9_Witness ==
    /\ pc[1] = "loop"
    /\ env.num_actions = 2
    /\ i[1] = 1
    /\ Len(envTrace[1]) > 0
    /\ left[1] = {0}
    /\ LastStep(1).next_state = 1
    /\ Q[1][0][0] # Zero
    /\ pi[1][0][0] # pi[1][0][1]

\* C10: between two complete passes of the loop body, for every state some
\* step has left, an action given 1 - epsilon + epsilon/A in the policy row
\* attains the maximum of the row of Q, and for epsilon < 1 and A > 1 it is
\* the only action given that probability.
C10_PolicyFollowsQ ==
    \A r \in runs :
        AtBoundary(r) =>
            LET hi == Ceiling
            IN  \A s \in left[r] :
                    /\ \E a \in Actions : pi[r][s][a] = hi /\ IsMax(Q[r][s], a)
                    /\ (RLt(epsilon, One) /\ env.num_actions > 1) =>
                          /\ \A a \in Actions : pi[r][s][a] = hi => IsMax(Q[r][s], a)
                          /\ Cardinality({ a \in Actions : pi[r][s][a] = hi }) = 1

C10_Witness ==
    /\ pc[1] = "loop"
    /\ env.num_actions = 2
    /\ epsilon = Half
    /\ 0 \in left[1]
    /\ RLt(Q[1][0][0], Q[1][0][1])
    /\ pi[1][0][1] = Rat(3, 4)
    /\ action[1] = 0

====
